---- MODULE Spec2Model ----
(***************************************************************************)
(* Ping indicator applet (src/applet.js): the async generator ping(), the  *)
(* bounded wait _wait_proc_with_timeout() and the PingIndicatorApplet      *)
(* controller (_start, _stop, panel and settings handlers).                *)
(*                                                                         *)
(* Scheduling model: one event loop.  Every action is one main-loop        *)
(* callback (a panel or settings event, or the completion of a Gio async   *)
(* operation) together with all promise jobs it makes runnable; a handler  *)
(* runs from its entry, or from the await that was resumed, to its next    *)
(* await on a Gio operation.                                               *)
(*                                                                         *)
(* Async generator rules used (ECMAScript AsyncGenerator): the body starts *)
(* at the first next(); while the body is awaiting inside a next() request *)
(* the generator is "executing" and a return() request is only queued; a   *)
(* queued return() is taken up when the body reaches its next yield (it    *)
(* resumes there as a return, running the finally block) or is settled     *)
(* as done when the body completes.                                        *)
(***************************************************************************)
EXTENDS Naturals, Sequences, FiniteSets

MaxSessions == 2   \* generator objects created in one behaviour
MaxJoiners == 1    \* _stop() calls awaiting one stored _stoppedPromise

SIGTERM_TIMEOUT == 5000
SIGKILL_TIMEOUT == 5000

Null == 0
Sessions == 1..MaxSessions

\* values of the settings "host" and "interval": the stored ones, to which a
\* settings event of Spec sets them again, and those SettingsSpec varies them
\* over (no handler branches on them)
StoredHosts == {"a.example"}
StoredIntervals == {5}
Hosts == StoredHosts \cup {"b.example"}
Intervals == StoredIntervals \cup {1}

VARIABLES applet, gens, shell

vars == <<applet, gens, shell>>

(***************************************************************************)
(* Line parser: /\btime=(\d+(?:\.\d+))\s*ms\b/.exec(line), m ? m[1] : null *)
(* Lines and captures are sequences of one-character strings; the null     *)
(* sample is the empty sequence (group 1 is never empty).                  *)
(***************************************************************************)
Digits == {"0", "1", "2", "3", "4", "5", "6", "7", "8", "9"}
Letters == {"a", "b", "c", "d", "e", "f", "g", "h", "i", "j", "k", "l", "m",
            "n", "o", "p", "q", "r", "s", "t", "u", "v", "w", "x", "y", "z"}
WordChars == Digits \cup Letters \cup {"_"}
Spaces == {" "}

IsWordAt(line, k) == k \in 1..Len(line) /\ line[k] \in WordChars

\* \b between positions k-1 and k
WordBoundary(line, k) == IsWordAt(line, k - 1) # IsWordAt(line, k)

\* the position after the longest run of characters of cls starting at k
RECURSIVE RunEnd(_, _, _)
RunEnd(line, k, cls) ==
  IF k \in 1..Len(line) /\ line[k] \in cls THEN RunEnd(line, k + 1, cls) ELSE k

HasAt(line, k, lit) ==
  /\ k + Len(lit) - 1 <= Len(line)
  /\ \A j \in 1..Len(lit) : line[k + j - 1] = lit[j]

\* the attempt of the pattern at position k: <<matched, first, last>> of group 1
MatchAt(line, k) ==
  LET i1 == k + 5                       \* after "time="
      i2 == RunEnd(line, i1, Digits)    \* after \d+
      i3 == i2 + 1                      \* after \.
      i4 == RunEnd(line, i3, Digits)    \* after \d+
      i5 == RunEnd(line, i4, Spaces)    \* after \s*
      i6 == i5 + 2                      \* after "ms"
      ok == /\ WordBoundary(line, k)
            /\ HasAt(line, k, <<"t", "i", "m", "e", "=">>)
            /\ i2 > i1
            /\ HasAt(line, i2, <<".">>)
            /\ i4 > i3
            /\ HasAt(line, i5, <<"m", "s">>)
            /\ WordBoundary(line, i6)
  IN  <<ok, i1, i4 - 1>>

NoSample == <<>>

RegexExec(line) ==
  LET hits == {k \in 1..Len(line) : MatchAt(line, k)[1]}
  IN  IF hits = {} THEN NoSample
      ELSE LET k == CHOOSE h \in hits : \A h2 \in hits : h <= h2
               m == MatchAt(line, k)
           IN  SubSeq(line, m[2], m[3])

ParseLine(line) == RegexExec(line)

\* the output lines the probe may print
Lines == { <<"t", "i", "m", "e", "=", "1", ".", "5", " ", "m", "s">>,
           <<"t", "i", "m", "e", "=", "1", ".", "5", "m", "s">>,
           <<"t", "i", "m", "e", "=", "7", " ", "m", "s">>,
           <<"t", "t", "l", "=", "5", "9">>,
           <<"r", "t", "i", "m", "e", "=", "1", ".", "5", " ", "m", "s">> }

(***************************************************************************)
(* State                                                                   *)
(***************************************************************************)
\* interval.toString(), for the intervals of the model
ToString(n) ==
  LET digit == [d \in 0..9 |-> CASE d = 0 -> "0" [] d = 1 -> "1" [] d = 2 -> "2"
                                  [] d = 3 -> "3" [] d = 4 -> "4" [] d = 5 -> "5"
                                  [] d = 6 -> "6" [] d = 7 -> "7" [] d = 8 -> "8"
                                  [] OTHER -> "9"]
  IN  IF n < 10 THEN <<digit[n]>> ELSE <<digit[n \div 10], digit[n % 10]>>

\* the argument vector of the subprocess
Argv(host, interval) == <<"ping", "-n", "-i", ToString(interval), host>>

\* a generator object that has not been created yet
NoGen == [ state         |-> "unborn",  \* position of the body of ping()
           argv          |-> <<>>,      \* command line of the subprocess
           proc          |-> "none",    \* the subprocess: none, running, exited
           cancelled     |-> FALSE,     \* readCancellable
           cause         |-> "none",    \* why the finally block was entered
           retQueued     |-> FALSE,     \* a return() request waits in the queue
           returnCalls   |-> 0,         \* calls of return() on this generator
           stopped       |-> "none",    \* the promise return() gave to _stop
           stopper       |-> "none",    \* caller of the _stop awaiting it (first branch)
           joiners       |-> 0,         \* _stop calls awaiting it (else branch)
           stopOutcome   |-> "none",    \* how the _stop call that called return() settled
           joinOutcome   |-> "none",    \* how a _stop call of the else branch settled
           finalizations |-> 0,         \* entries of the finally block
           signals       |-> <<>>,      \* send_signal(SIGTERM) and force_exit() calls, in order
           termWait      |-> "none",    \* how the SIGTERM wait ended
           timer         |-> 0,         \* armed timeout source: its delay in ms, 0 if none
           late          |-> FALSE,     \* a value was rendered after return() was called
           loop          |-> "none" ]   \* _async_update: none, running, ended, failed (error logged)

Executing == {"reading", "closing", "wait_exit", "wait_term", "wait_kill"}
Finalizing == {"closing", "wait_exit", "wait_term", "wait_kill"}

World == [a |-> applet, g |-> gens, sh |-> shell]

Spawned(w) == {s \in Sessions : w.g[s].state # "unborn"}

FreshId(w) == Cardinality(Spawned(w)) + 1

(***************************************************************************)
(* ping(): the async generator                                             *)
(***************************************************************************)
\* finally block, up to "await stdout.close_async(0, null)"
ping_finally(w, s, why) ==
  [w EXCEPT !.g[s].cancelled = TRUE,
            !.g[s].finalizations = @ + 1,
            !.g[s].cause = why,
            !.g[s].state = "closing"]

\* return() whose promise settles at once, before the body has completed
gen_return_at_once(w, s) ==
  IF w.g[s].state = "completed"
  THEN [w EXCEPT !.g[s].returnCalls = @ + 1,
                 !.g[s].stopped = "fulfilled"]
  ELSE [w EXCEPT !.g[s].returnCalls = @ + 1,
                 !.g[s].stopped = "fulfilled",
                 !.g[s].retQueued = TRUE]

\* return() that runs the finally block again on a completed generator
gen_return_again(w, s) ==
  IF w.g[s].state = "completed"
  THEN ping_finally([w EXCEPT !.g[s].returnCalls = @ + 1,
                              !.g[s].stopped = "pending"], s, "return")
  ELSE [w EXCEPT !.g[s].returnCalls = @ + 1,
                 !.g[s].stopped = "pending",
                 !.g[s].retQueued = TRUE]

\* ping.return(): queued while the body is executing, settled at once as
\* done on a completed generator
gen_return(w, s) ==
  IF w.g[s].state = "completed"
  THEN [w EXCEPT !.g[s].returnCalls = @ + 1,
                 !.g[s].stopped = "fulfilled"]
  ELSE [w EXCEPT !.g[s].returnCalls = @ + 1,
                 !.g[s].stopped = "pending",
                 !.g[s].retQueued = TRUE]

\* _wait_proc_with_timeout without Mainloop.timeout_add
wait_proc_without_timeout(w, s, timeout, at) == [w EXCEPT !.g[s].state = at]

\* _wait_proc_with_timeout(proc, timeout), up to "await proc.wait_async"
_wait_proc_with_timeout(w, s, timeout, at) ==
  [w EXCEPT !.g[s].timer = timeout, !.g[s].state = at]

\* the timeout callback has run: the Cancellable is cancelled, and the source
\* is gone because the callback returned false
timeout_fired(w, s) == [w EXCEPT !.g[s].timer = 0]

\* _wait_proc_with_timeout without the finally block
source_remove_skipped(w, s) == w

\* the finally block of _wait_proc_with_timeout: Mainloop.source_remove
source_remove(w, s) == [w EXCEPT !.g[s].timer = 0]

\* proc.wait_finish: TRUE when the process exited, raises when cancelled
wait_finish(cancelled) == IF cancelled THEN "raise" ELSE "true"

\* "if (terminated)" in place of "if (!terminated)"
needs_kill_inverted(terminated) == terminated

\* "if (!terminated)" after the SIGTERM wait
needs_kill(terminated) == ~terminated

(***************************************************************************)
(* PingIndicatorApplet                                                     *)
(***************************************************************************)
Title == <<>>

_set_ping_val(w, val) ==
  [w EXCEPT !.a.label =
      Title \o (IF val # NoSample THEN val \o <<" ", "m", "s">> ELSE <<"N", "/", "A">>)]

\* _async_update: the first next() runs ping() up to its first read_line_async
_async_update(w) ==
  LET s == w.a._ping
  IN  [w EXCEPT !.g[s].state = "reading",
                !.g[s].proc = "running",
                !.g[s].argv = Argv(w.a.host, w.a.interval),
                !.g[s].loop = "running"]

\* _start() as it would be without its guard
_start_unguarded(w) ==
  _async_update([w EXCEPT !.a._ping = FreshId(w),
                          !.g[FreshId(w)].state = "suspendedStart"])

\* sh.startIgnored records that _start() was called with a generator in _ping
_start(w) ==
  IF w.a._ping = Null
  THEN _async_update([w EXCEPT !.a._ping = FreshId(w),
                               !.g[FreshId(w)].state = "suspendedStart"])
  ELSE [w EXCEPT !.sh.startIgnored = TRUE]

\* what the caller of _stop() does once the promise of _stop() settles
after_stop(w, caller, rejected) ==
  IF rejected THEN [w EXCEPT !.sh.escaped = TRUE]   \* nobody catches it
  ELSE IF caller = "settings" THEN _start(w)        \* on_settings_changed, line 180
  ELSE w                                            \* on_applet_removed_from_panel

\* _stop(), first branch, from the settling of "await this._stoppedPromise":
\* a rejection is caught and logged
stop_caught(w, s, caller) ==
  after_stop([w EXCEPT !.g[s].stopper = "none",
                       !.g[s].stopOutcome = "resolved"],
             caller, FALSE)

\* _stop(), else branch, from the settling of "await this._stoppedPromise"
stop_joined(w, s, caller) ==
  IF s = Null THEN after_stop(w, caller, FALSE)      \* Promise.resolve() of the constructor
  ELSE IF w.g[s].stopped = "rejected"
       THEN after_stop([w EXCEPT !.g[s].joinOutcome = "rejected"], caller, TRUE)
       ELSE after_stop([w EXCEPT !.g[s].joinOutcome = "resolved"], caller, FALSE)

\* _stop() without "this._ping = null"
_stop_keeps_ping(w, caller) ==
  IF w.a._ping # Null
  THEN LET ping == w.a._ping
           w1 == gen_return(w, ping)
           w2 == [w1 EXCEPT !.a._stoppedPromise = ping]
       IN  IF w2.g[ping].stopped = "pending"
           THEN [w2 EXCEPT !.g[ping].stopper = caller]
           ELSE stop_caught(w2, ping, caller)
  ELSE w

_stop(w, caller) ==
  IF w.a._ping # Null
  THEN LET ping == w.a._ping
           w1 == gen_return([w EXCEPT !.a._ping = Null], ping)
           w2 == [w1 EXCEPT !.a._stoppedPromise = ping]
       IN  IF w2.g[ping].stopped = "pending"
           THEN [w2 EXCEPT !.g[ping].stopper = caller]
           ELSE stop_caught(w2, ping, caller)
  ELSE LET s == w.a._stoppedPromise
       IN  IF s # Null /\ w.g[s].stopped = "pending"
           THEN [w EXCEPT !.g[s].joiners = @ + 1]
           ELSE stop_joined(w, s, caller)

\* the else branch of _stop() is only ever entered from
\* on_applet_removed_from_panel: on_settings_changed checks _ping first
RECURSIVE resume_joiners(_, _, _)
resume_joiners(w, s, n) ==
  IF n = 0 THEN [w EXCEPT !.g[s].joiners = 0]
  ELSE resume_joiners(stop_joined(w, s, "removed"), s, n - 1)

\* the body of ping() completes, normally or by an exception leaving the
\* finally block: the request it was serving and the queued ones settle, and
\* the handlers awaiting them run on
gen_complete(w, s, thrown) ==
  LET g == w.g[s]
      servesReturn == g.cause = "return"
      \* the pending next() of _async_update rejects: its catch logs
      nextRejects == ~servesReturn /\ (thrown \/ g.cause = "error")
      settled == IF g.stopped # "pending" THEN g.stopped
                 ELSE IF servesReturn /\ thrown THEN "rejected" ELSE "fulfilled"
      w1 == [w EXCEPT !.g[s].state = "completed",
                      !.g[s].argv = <<>>,       \* not followed further
                      !.g[s].retQueued = FALSE,
                      !.g[s].stopped = settled,
                      !.g[s].loop = IF nextRejects THEN "failed" ELSE "ended"]
      w2 == IF g.stopped = "pending" /\ g.stopper # "none"
            THEN stop_caught(w1, s, g.stopper) ELSE w1
  IN  IF g.stopped = "pending" THEN resume_joiners(w2, s, g.joiners) ELSE w2

\* after "terminated = await _wait_proc_with_timeout(proc, SIGTERM_TIMEOUT)"
after_sigterm_wait(w, s, terminated) ==
  IF needs_kill(terminated)
  THEN _wait_proc_with_timeout(
         [w EXCEPT !.g[s].signals = Append(@, "force_exit")],
         s, SIGKILL_TIMEOUT, "wait_kill")
  ELSE gen_complete(w, s, FALSE)

(***************************************************************************)
(* Actions                                                                 *)
(***************************************************************************)
\* the step to w; a step that would create more than MaxSessions generators
\* is left out
Become(w) ==
  /\ w.a._ping \in Sessions \cup {Null}
  /\ applet' = w.a /\ gens' = w.g /\ shell' = w.sh

InitOver(H, I) ==
  /\ \E h \in H, i \in I :
       applet = [_is_in_panel |-> FALSE, _ping |-> Null,
                 _stoppedPromise |-> Null, label |-> <<"N", "/", "A">>,
                 host |-> h, interval |-> i, tooltip |-> h]
  /\ gens = [s \in Sessions |-> NoGen]
  /\ shell = [escaped |-> FALSE,        \* a rejection nobody caught reached the shell
              startIgnored |-> FALSE]

Init == InitOver(StoredHosts, StoredIntervals)

on_applet_added_to_panel ==
  /\ Become(_start([World EXCEPT !.a._is_in_panel = TRUE]))

on_applet_removed_from_panel ==
  /\ LET s == applet._stoppedPromise
     IN  (applet._ping = Null /\ s # Null /\ gens[s].stopped = "pending")
            => gens[s].joiners < MaxJoiners
  /\ Become(_stop([World EXCEPT !.a._is_in_panel = FALSE], "removed"))

\* the setting key has got a value: the bound property is updated
settings_set(w, key, value) ==
  IF key = "host" THEN [w EXCEPT !.a.host = value]
  ELSE [w EXCEPT !.a.interval = value]

\* on_settings_changed without the test of _is_in_panel
settings_changed_anywhere(w) ==
  LET w1 == [w EXCEPT !.a.tooltip = w.a.host]
  IN  IF w1.a._ping # Null
      THEN _stop(w1, "settings")
      ELSE _start(w1)

\* the body of on_settings_changed, up to its await or its end
settings_changed(w) ==
  LET w1 == [w EXCEPT !.a.tooltip = w.a.host]
  IN  IF w1.a._is_in_panel
      THEN IF w1.a._ping # Null
           THEN _stop(w1, "settings")
           ELSE _start(w1)
      ELSE w1

on_settings_changed(key, value) ==
  /\ Become(settings_changed(settings_set(World, key, value)))

\* read_line_async gives a line: it is parsed and yielded
ReadLine(s, line) ==
  /\ gens[s].state = "reading"
  /\ LET val == ParseLine(line)
         \* the consumer gets the value and asks for the next
         w1 == [_set_ping_val(World, val) EXCEPT !.g[s].late = gens[s].retQueued]
     IN  Become(IF gens[s].retQueued
                THEN ping_finally(w1, s, "return")   \* resumed at the yield as a return
                ELSE w1)

\* read_line_async gives null: stdout closed
ReadEnd(s) ==
  /\ gens[s].state = "reading"
  /\ Become(ping_finally(World, s, "eof"))

\* read_line_async raises
ReadError(s) ==
  /\ gens[s].state = "reading"
  /\ Become(ping_finally(World, s, "error"))

\* close_async is done: the finally block goes on to its wait
CloseDone(s) ==
  /\ gens[s].state = "closing"
  /\ Become(IF gens[s].proc = "exited"          \* get_identifier() == null
            THEN [World EXCEPT !.g[s].state = "wait_exit"]
            ELSE _wait_proc_with_timeout(
                   [World EXCEPT !.g[s].signals = Append(@, "SIGTERM")],
                   s, SIGTERM_TIMEOUT, "wait_term"))

\* close_async raises: the exception leaves the finally block
CloseError(s) ==
  /\ gens[s].state = "closing"
  /\ Become(gen_complete(World, s, TRUE))

\* the subprocess exits (a process that outlives its generator is not
\* followed further)
ProcExit(s) ==
  /\ gens[s].proc = "running"
  /\ gens[s].state \in Executing
  /\ Become([World EXCEPT !.g[s].proc = "exited"])

\* a wait_async settles: the process has exited, or the timer has cancelled it
WaitSettles(s, cancelled) ==
  /\ gens[s].state \in {"wait_exit", "wait_term", "wait_kill"}
  /\ IF cancelled THEN gens[s].timer # 0 ELSE gens[s].proc = "exited"
  /\ LET result == wait_finish(cancelled)
         w0 == [World EXCEPT !.g[s].termWait =
                                IF gens[s].state = "wait_term"
                                THEN (IF cancelled THEN "timeout" ELSE "exited")
                                ELSE @]
         w1 == source_remove(IF cancelled THEN timeout_fired(w0, s) ELSE w0, s)
     IN  Become(IF result = "raise" THEN gen_complete(w1, s, TRUE)
                ELSE IF gens[s].state = "wait_term"
                     THEN after_sigterm_wait(w1, s, result = "true")
                     ELSE gen_complete(w1, s, FALSE))

NextOver(H, I) ==
  \/ on_applet_added_to_panel
  \/ on_applet_removed_from_panel
  \/ \E value \in H : on_settings_changed("host", value)
  \/ \E value \in I : on_settings_changed("interval", value)
  \/ \E s \in Sessions, line \in Lines : ReadLine(s, line)
  \/ \E s \in Sessions : ReadEnd(s)
  \/ \E s \in Sessions : ReadError(s)
  \/ \E s \in Sessions : CloseDone(s)
  \/ \E s \in Sessions : CloseError(s)
  \/ \E s \in Sessions : ProcExit(s)
  \/ \E s \in Sessions, cancelled \in BOOLEAN : WaitSettles(s, cancelled)

Next == NextOver(StoredHosts, StoredIntervals)

Spec == Init /\ [][Next]_vars

\* the main loop dispatches a timeout source that is due: the timer of a
\* bounded wait fires unless the wait has settled before
LiveSpec == Spec /\ \A s \in Sessions : WF_vars(WaitSettles(s, TRUE))

\* the same program with the settings varying
SettingsInit == InitOver(Hosts, Intervals)

SettingsNext == NextOver(Hosts, Intervals)

SettingsSpec == SettingsInit /\ [][SettingsNext]_vars

(***************************************************************************)
(* Properties                                                              *)
(***************************************************************************)
Count(seq, x) == Cardinality({i \in 1..Len(seq) : seq[i] = x})

\* sessions between the spawn of their process and the end of their finalization
Existing == {s \in Sessions : gens[s].state \in Executing}

\* C1: at most one probe session exists at any instant, a session existing
\* from the spawn of its process until its finalization has completed.
AtMostOneSession == Cardinality(Existing) <= 1

\* C2: _start() called while _ping holds a generator changes neither _ping
\* nor any generator or process, and spawns nothing.
StartNoOpWhenActive ==
  [][(applet._ping # Null /\ on_applet_added_to_panel)
       => (applet'._ping = applet._ping /\ gens' = gens)]_vars

StartCalledWhileActive ==
  /\ shell.startIgnored
  /\ applet._ping # Null
  /\ gens[applet._ping].state = "reading"

\* C3: for every session return() is requested at most once, SIGTERM is sent
\* at most once and force_exit is called at most once, however many _stop()
\* calls overlap.
OneCancellationPerSession ==
  \A s \in Sessions :
    /\ gens[s].returnCalls <= 1
    /\ Count(gens[s].signals, "SIGTERM") <= 1
    /\ Count(gens[s].signals, "force_exit") <= 1

SecondStopInFlight ==
  \E s \in Sessions :
    /\ gens[s].joiners >= 1
    /\ gens[s].stopper # "none"
    /\ gens[s].signals = <<"SIGTERM">>

\* C4: once return() has been called on a session, no value of that session
\* is passed to _set_ping_val.
NoSampleAfterReturn == \A s \in Sessions : ~gens[s].late

\* C5: force_exit is called only after SIGTERM was sent and only when the
\* SIGTERM wait did not end with the exit of the process.
GracefulBeforeForced ==
  \A s \in Sessions :
    /\ Count(gens[s].signals, "force_exit") > 0
          => gens[s].signals[1] = "SIGTERM" /\ gens[s].termWait # "exited"
    /\ gens[s].termWait # "none" => Count(gens[s].signals, "SIGTERM") > 0

ExitedWithinGrace ==
  \E s \in Sessions :
    /\ gens[s].state = "completed"
    /\ gens[s].termWait = "exited"
    /\ gens[s].signals = <<"SIGTERM">>

\* sessions whose _stop() an on_settings_changed handler is awaiting
Restarting ==
  {s \in Sessions : gens[s].stopper = "settings" /\ gens[s].stopped = "pending"}

\* C6: while an on_settings_changed handler awaits the _stop() of its restart,
\* no session is started.
RestartNotInterleaved ==
  \A s \in Restarting : applet._ping = Null

\* C7: a session on which return() has been requested is not left waiting in
\* read_line_async: its readCancellable is cancelled.
ReturnCancelsPendingRead ==
  \A s \in Sessions :
    (gens[s].retQueued /\ gens[s].state = "reading") => gens[s].cancelled

\* C8: no _stop() call raises: no rejection reaches the host shell.
StopNeverRaises == ~shell.escaped

\* C9: a session that ended without a stop request does not stay in _ping,
\* so that the next _start() spawns a session.
IdleAfterNaturalEnd ==
  \A s \in Sessions :
    (gens[s].state = "completed" /\ gens[s].returnCalls = 0) => applet._ping # s

\* C10: the finally block of ping() is entered exactly once per spawned
\* session: not before the read loop ends, once when it has ended by end of
\* stream, return() or a read error, and not again by a later return().
FinalizedExactlyOnce ==
  \A s \in Sessions :
    /\ gens[s].state \in {"unborn", "reading"} => gens[s].finalizations = 0
    /\ gens[s].state \in Finalizing \cup {"completed"} => gens[s].finalizations = 1

ReturnOnFinishedSession ==
  \E s \in Sessions :
    /\ gens[s].state = "completed"
    /\ gens[s].cause \in {"eof", "error"}
    /\ gens[s].returnCalls = 1
    /\ gens[s].finalizations = 1

\* C11: a _stop() call that awaited the stored _stoppedPromise of a session
\* settles as the call that requested the cancellation did: both normally or
\* both with the failure of the finalization.
StopsSettleAlike ==
  \A s \in Sessions :
    gens[s].joinOutcome # "none" => gens[s].joinOutcome = gens[s].stopOutcome

\* C12: once the _stop() call that stopped a session has resolved, no line of
\* that session is read and rendered any more: its consumption loop has ended.
SilentAfterStopResolved ==
  [][\A s \in Sessions :
       gens[s].stopOutcome # "none"
         => /\ gens[s].loop \in {"ended", "failed"}
            /\ ~(\E line \in Lines : ReadLine(s, line))]_vars

StopResolvedAfterRead ==
  \E s \in Sessions :
    /\ gens[s].stopOutcome = "resolved"
    /\ gens[s].cause = "return"
    /\ gens[s].late
    /\ gens[s].loop = "ended"

\* C13: a settings event that finds the applet out of the panel leaves the
\* _ping slot and every session as they are, and each later
\* on_applet_added_to_panel of the detached applet leaves in the _ping slot a
\* session whose command line, while it reads, holds the host and the interval
\* of the settings.
SettingsUsedAtNextAdd ==
  [][/\ \A value \in Hosts :
          (~applet._is_in_panel /\ on_settings_changed("host", value))
            => (applet'._ping = applet._ping /\ gens' = gens)
     /\ \A value \in Intervals :
          (~applet._is_in_panel /\ on_settings_changed("interval", value))
            => (applet'._ping = applet._ping /\ gens' = gens)
     /\ (~applet._is_in_panel /\ on_applet_added_to_panel)
          => \E s \in Sessions :
               /\ applet'._ping = s
               /\ gens'[s].state = "reading"
                    => gens'[s].argv = Argv(applet'.host, applet'.interval)]_vars

\* the sample the stated rule gives: the number of the first substring
\* time=<digits>(.<digits>)?<spaces>ms of the line, NoSample without one
StatedMatchAt(line, k) ==
  LET i1 == k + 5
      i2 == RunEnd(line, i1, Digits)
      i3 == IF HasAt(line, i2, <<".">>) /\ RunEnd(line, i2 + 1, Digits) > i2 + 1
            THEN RunEnd(line, i2 + 1, Digits)
            ELSE i2
      i4 == RunEnd(line, i3, Spaces)
      ok == /\ HasAt(line, k, <<"t", "i", "m", "e", "=">>)
            /\ i2 > i1
            /\ HasAt(line, i4, <<"m", "s">>)
  IN  <<ok, i1, i3 - 1>>

StatedSample(line) ==
  LET hits == {k \in 1..Len(line) : StatedMatchAt(line, k)[1]}
  IN  IF hits = {} THEN NoSample
      ELSE LET k == CHOOSE h \in hits : \A h2 \in hits : h <= h2
               m == StatedMatchAt(line, k)
           IN  SubSeq(line, m[2], m[3])

\* C14: each line read is rendered as the stated rule says: the number of its
\* substring time=<number>ms (integer or decimal, spaces allowed before ms)
\* as the sample, and the unresolved sample for a line without one.
ParserYieldsStatedSample ==
  [][\A s \in Sessions, line \in Lines :
       ReadLine(s, line)
         => applet'.label = _set_ping_val(World, StatedSample(line)).a.label]_vars

\* C15: no two sessions are inside their finalization (from the start of the
\* finally block of ping to its completion) at the same time.
AtMostOneFinalization ==
  Cardinality({s \in Sessions : gens[s].state \in Finalizing}) <= 1

\* C16: when the SIGTERM wait of a session has ended by its timeout,
\* force_exit has been called on the process and the finalization goes on
\* with the SIGKILL wait; the timeout does not end the finalization with an
\* error.
ForcedAfterGraceTimeout ==
  \A s \in Sessions :
    gens[s].termWait = "timeout"
      => /\ Count(gens[s].signals, "force_exit") = 1
         /\ gens[s].stopped # "rejected"

\* C17: the timeout source of a bounded wait is armed only while the session
\* is inside that wait: once _wait_proc_with_timeout has returned or raised,
\* no timer of the session is left.
TimerArmedOnlyDuringWait ==
  \A s \in Sessions :
    gens[s].timer # 0 => gens[s].state \in {"wait_term", "wait_kill"}

\* one bounded wait has returned and another has raised
BoundedWaitOver ==
  \E s, t \in Sessions :
    /\ gens[s].state = "completed"
    /\ gens[s].termWait = "exited"
    /\ gens[s].timer = 0
    /\ gens[t].state = "completed"
    /\ gens[t].termWait = "timeout"
    /\ gens[t].timer = 0

DetachedMeansIdle ==
  (/\ ~applet._is_in_panel
   /\ \A s \in Sessions : gens[s].stopped # "pending")
    => (applet._ping = Null /\ Existing = {})

\* the on_settings_changed handler that awaits the stop of s would spawn one
\* session more than MaxSessions when s completes: the step is left out of the
\* model (see Become)
BeyondBound(s) ==
  /\ gens[s].stopper = "settings"
  /\ gens[s].stopped = "pending"
  /\ applet._ping = Null
  /\ Spawned(World) = Sessions

\* C20: a session that has entered a bounded wait of its finalization
\* (SIGTERM sent to an identified process) eventually has its generator
\* completed and the promise of every return() on it settled, whether or not
\* the process ever exits.
FinalizationTerminates ==
  \A s \in Sessions :
    (gens[s].state \in {"wait_term", "wait_kill"})
      ~> \/ gens[s].state = "completed" /\ gens[s].stopped # "pending"
         \/ BeyondBound(s)

\* a stop has settled although the process never exited
StopSettledProcessAlive ==
  \E s \in Sessions :
    /\ gens[s].state = "completed"
    /\ gens[s].proc = "running"
    /\ gens[s].termWait = "timeout"
    /\ gens[s].stopOutcome = "resolved"

====
